---- MODULE Spec2Model ----
(***************************************************************************)
(* GYEON Inventory Manager: the in-memory inventory list, its handlers     *)
(* (add, update, delete, sort, clear, save, load), the two algorithms      *)
(* (linear_search, bubble_sort) and the JSON persistence of                *)
(* "Gyeon IMS Application.py".                                             *)
(*                                                                         *)
(* A Python str is modelled as a sequence of one-character strings, so     *)
(* that strip(), lower(), isdigit(), int(), str() and the comparison of    *)
(* strings are computed character by character as Python computes them.    *)
(***************************************************************************)
EXTENDS Integers, Sequences, FiniteSets, TLC

\* ------------------------------------------------------------------ bounds
\* Longest inventory list the handlers are allowed to build.
MaxLen == 2
\* Largest quantity a merge may produce (the sum is unbounded in the code).
MaxQty == 2
\* Longest inventory list handed to the algorithms on their own.
MaxSortLen == 3
\* Longest inventory list a single observed handler starts from.
MaxStepLen == 2

\* ------------------------------------------------------------ Python str
\* The characters of the model in code point order (str comparison compares
\* code points; only the relative order matters).
CodePoints ==
  << " ", "&", "-", "0", "1", "2", "3", "4", "5", "6", "7", "8", "9",
     "A", "B", "C", "M", "N", "P", "W", "Z",
     "a", "b", "c", "d", "e", "g", "i", "m", "n", "o", "p", "r", "s", "t",
     "u", "w", "x", "z", "²" >>

ord(c) == CHOOSE i \in DOMAIN CodePoints : CodePoints[i] = c

\* str.lower() on one character.
lower_char(c) ==
  CASE c = "A" -> "a" [] c = "B" -> "b" [] c = "C" -> "c" [] c = "M" -> "m"
    [] c = "N" -> "n" [] c = "P" -> "p" [] c = "W" -> "w" [] c = "Z" -> "z"
    [] OTHER -> c

\* str.lower()
lower(s) == [i \in 1..Len(s) |-> lower_char(s[i])]

RECURSIVE lstrip(_)
lstrip(s) == IF s # <<>> /\ Head(s) = " " THEN lstrip(Tail(s)) ELSE s

RECURSIVE rstrip(_)
rstrip(s) ==
  IF s # <<>> /\ s[Len(s)] = " " THEN rstrip(SubSeq(s, 1, Len(s) - 1)) ELSE s

\* str.strip()
strip(s) == rstrip(lstrip(s))

\* a > b on two str: the first differing character decides, a proper prefix
\* is smaller.
RECURSIVE str_gt(_, _)
str_gt(a, b) ==
  IF a = <<>> THEN FALSE
  ELSE IF b = <<>> THEN TRUE
  ELSE IF Head(a) = Head(b) THEN str_gt(Tail(a), Tail(b))
  ELSE ord(Head(a)) > ord(Head(b))

DecimalDigits == << "0", "1", "2", "3", "4", "5", "6", "7", "8", "9" >>
IsDecimal(c) == \E i \in DOMAIN DecimalDigits : DecimalDigits[i] = c
\* Characters str.isdigit() accepts: the decimal digits and the other
\* characters of Unicode property Numeric_Type=Digit, such as SUPERSCRIPT TWO.
IsDigitChar(c) == IsDecimal(c) \/ c = "²"

\* str.isdigit(): non-empty and every character is a digit character.
isdigit(s) == s # <<>> /\ \A i \in DOMAIN s : IsDigitChar(s[i])

\* The body of an integer literal after whitespace and sign are removed.
int_body(s) ==
  LET t == strip(s)
  IN IF t # <<>> /\ Head(t) \in {"-", "+"} THEN Tail(t) ELSE t

\* int(s) returns (does not raise ValueError).
int_ok(s) == int_body(s) # <<>> /\ \A i \in DOMAIN int_body(s) : IsDecimal(int_body(s)[i])

digit_value(c) == (CHOOSE i \in DOMAIN DecimalDigits : DecimalDigits[i] = c) - 1

RECURSIVE digits_value(_)
digits_value(s) ==
  IF s = <<>> THEN 0
  ELSE 10 * digits_value(SubSeq(s, 1, Len(s) - 1)) + digit_value(s[Len(s)])

\* int(s), where int_ok(s).
int(s) ==
  LET t == strip(s)
  IN IF Head(t) = "-" THEN 0 - digits_value(int_body(s)) ELSE digits_value(int_body(s))

RECURSIVE nat_str(_)
nat_str(n) ==
  IF n < 10 THEN << DecimalDigits[n + 1] >>
  ELSE Append(nat_str(n \div 10), DecimalDigits[(n % 10) + 1])

\* str(n) on an int.
str(n) == IF n < 0 THEN << "-" >> \o nat_str(0 - n) ELSE nat_str(n)

\* ------------------------------------------------------------- constants
Coating_Wax == << "C", "o", "a", "t", "i", "n", "g", " ", "&", " ", "W", "a", "x" >>
Maintenance == << "M", "a", "i", "n", "t", "e", "n", "a", "n", "c", "e" >>
Pads == << "P", "a", "d", "s" >>
Accessories == << "A", "c", "c", "e", "s", "s", "o", "r", "i", "e", "s" >>
Compounds == << "C", "o", "m", "p", "o", "u", "n", "d", "s" >>

CATEGORY_ORDER == << Coating_Wax, Maintenance, Pads, Accessories >>

\* linear_search returns -1 for "not found".
NotFound == -1

\* Python's None where a str is expected: dict.get(key) on a missing key.
\* It is no sequence of characters; str(None) is the text "None".
None == << "None" >>
py_str(v) == IF v = None THEN << "N", "o", "n", "e" >> ELSE v

\* item.get(key, default) and item.get(key)
get(item, key, default) == IF key \in DOMAIN item THEN item[key] ELSE default
get_or_none(item, key) == get(item, key, None)

\* ------------------------------------------------------------ algorithms
\* for i, item in enumerate(inventory): first i with the same stripped,
\* lower-cased name, else -1.  Indexes are Python's (from 0).
\* linear_search comparing the names as stored, case and all.
RECURSIVE linear_search_as_stored(_, _, _)
linear_search_as_stored(inventory_, target, i) ==
  IF i >= Len(inventory_) THEN NotFound
  ELSE IF strip(get(inventory_[i + 1], "name", <<>>)) = target THEN i
  ELSE linear_search_as_stored(inventory_, target, i + 1)

RECURSIVE linear_search_from(_, _, _)
linear_search_from(inventory_, target, i) ==
  IF i >= Len(inventory_) THEN NotFound
  ELSE IF lower(strip(get(inventory_[i + 1], "name", <<>>))) = target THEN i
  ELSE linear_search_from(inventory_, target, i + 1)

\* A search that finds nothing.
linear_search_nowhere(inventory_, name) == NotFound

linear_search(inventory_, name) ==
  linear_search_from(inventory_, lower(strip(name)), 0)

\* cat_index(val): the position in CATEGORY_ORDER, len(CATEGORY_ORDER) if absent.
cat_index(val) ==
  IF \E k \in DOMAIN CATEGORY_ORDER : CATEGORY_ORDER[k] = val
  THEN (CHOOSE k \in DOMAIN CATEGORY_ORDER : CATEGORY_ORDER[k] = val) - 1
  ELSE Len(CATEGORY_ORDER)

\* The comparison of bubble_sort raises: int(a) or int(b) on a quantity
\* that is no integer literal.
compare_raises(a, b, key) ==
  key = "quantity" /\ (a = None \/ b = None \/ ~int_ok(a) \/ ~int_ok(b))

\* A swap condition that swaps equal keys too.
out_of_order_or_equal(a, b, key) ==
  CASE key = "name" -> ~str_gt(lower(py_str(b)), lower(py_str(a)))
    [] key = "product_number" -> ~str_gt(lower(py_str(b)), lower(py_str(a)))
    [] key = "quantity" -> int(a) >= int(b)
    [] key = "category" -> cat_index(py_str(a)) >= cat_index(py_str(b))

\* An exchange that copies one item over the other.
swap_copying(s, j) == [s EXCEPT ![j] = s[j + 1]]

\* The swap condition of bubble_sort for each key (where it does not raise).
out_of_order(a, b, key) ==
  CASE key = "name" -> str_gt(lower(py_str(a)), lower(py_str(b)))
    [] key = "product_number" -> str_gt(lower(py_str(a)), lower(py_str(b)))
    [] key = "quantity" -> int(a) > int(b)
    [] key = "category" -> cat_index(py_str(a)) > cat_index(py_str(b))

swap(s, j) == [s EXCEPT ![j] = s[j + 1], ![j + 1] = s[j]]

\* for j in range(0, n - i - 1): compare inventory[j] with inventory[j + 1]
\* and swap.  r carries the list, the swapped flag, the number of swaps and
\* whether a comparison raised (which ends the sort where it stands).
RECURSIVE inner_loop(_, _, _, _)
inner_loop(r, key, j, stop) ==
  IF j >= stop THEN r
  ELSE LET a == get_or_none(r.inventory[j + 1], key)
           b == get_or_none(r.inventory[j + 2], key)
       IN IF compare_raises(a, b, key) THEN [r EXCEPT !.raised = TRUE]
          ELSE IF out_of_order(a, b, key)
               THEN inner_loop([r EXCEPT !.inventory = swap(r.inventory, j + 1),
                                         !.swapped = TRUE,
                                         !.swaps = r.swaps + 1],
                               key, j + 1, stop)
               ELSE inner_loop(r, key, j + 1, stop)

\* for i in range(n): one pass; break when the pass swapped nothing.
RECURSIVE outer_loop(_, _, _)
outer_loop(r, key, i) ==
  IF i >= Len(r.inventory) THEN r
  ELSE LET p == inner_loop([r EXCEPT !.swapped = FALSE, !.passes = r.passes + 1],
                           key, 0, Len(r.inventory) - i - 1)
       IN IF p.raised \/ ~p.swapped THEN p ELSE outer_loop(p, key, i + 1)

\* bubble_sort(inventory, key): the list it leaves, with the number of
\* swaps and passes it made and whether it raised.
bubble_sort(inventory_, key) ==
  outer_loop([inventory |-> inventory_, swapped |-> FALSE, swaps |-> 0,
              passes |-> 0, raised |-> FALSE], key, 0)

\* ----------------------------------------------------------------- state
VARIABLES
  inventory,   \* self.inventory: the list of item dicts
  tree,        \* the rows of the Treeview: iid and the four displayed values
  sel,         \* the selected row's iid, NoSel when no row is selected
  file,        \* the content of DATA_FILE
  tmp,         \* the content of DATA_FILE + ".tmp"
  pc,          \* where the running save stands, "idle" between handlers
  watch,       \* what is observed: "off", "dialogs" or "all" (fixed at the start)
  op,          \* observation: the last handler that ran
  msg,         \* observation: the dialog the last handler ended with
  pre,         \* observation: self.inventory before the last handler
  args,        \* observation: what the last handler read (entries, answers)
  obs          \* observation: counters and results of the last handler

vars == << inventory, tree, sel, file, tmp, pc, watch, op, msg, pre, args, obs >>

NoSel == -1

\* An item as add_item builds it (lines 427-432).
\* A new item that drops the category.
new_item_without_category(prodnum, name, category, qty) ==
  [product_number |-> prodnum, name |-> name, category |-> <<>>, quantity |-> qty]

new_item(prodnum, name, category, qty) ==
  [product_number |-> prodnum, name |-> name, category |-> category, quantity |-> qty]

\* The values of one row (refresh_table, lines 351-356).
row_values(item) ==
  << get(item, "product_number", <<>>), get(item, "name", <<>>),
     get(item, "category", <<>>), get(item, "quantity", << "0" >>) >>

\* refresh_table: one row per item, its iid the item's index.
refresh_table(inventory_) ==
  [i \in 1..Len(inventory_) |-> [iid |-> i - 1, values |-> row_values(inventory_[i])]]

\* _get_selected_index: int(iid) of the selected row, NoSel for None.
\* (Every row refresh_table inserts has an integer iid.)
selected_index == sel

\* A duplicate check that finds nothing.
prodnum_never_exists(inventory_, prodnum) == FALSE

\* Some item carries product number prodnum (add_item, lines 418-419).
prodnum_exists(inventory_, prodnum) ==
  \E i \in DOMAIN inventory_ :
    strip(get(inventory_[i], "product_number", <<>>)) = prodnum

\* A clash check that counts the item at index idx too.
prodnum_clash_with_itself(inventory_, idx, prodnum) ==
  \E i \in DOMAIN inventory_ :
    strip(get(inventory_[i], "product_number", <<>>)) = prodnum

\* Some item other than the one at index idx carries prodnum
\* (update_selected, lines 460-461).
prodnum_clash(inventory_, idx, prodnum) ==
  \E i \in DOMAIN inventory_ :
    /\ i - 1 # idx
    /\ strip(get(inventory_[i], "product_number", <<>>)) = prodnum

\* A deletion that removes the last item whatever the index.
remove_last(s, i) == SubSeq(s, 1, Len(s) - 1)

remove_at(s, i) == SubSeq(s, 1, i - 1) \o SubSeq(s, i + 1, Len(s))

\* ------------------------------------------------------------------ JSON
\* A JSON value as json.load returns it: an array of entries, an object
\* (with or without the key "inventory", whose array is then items), or
\* something else. An entry is an object (a dict: its members in order) or
\* no object (a string, a number, ...).
json_value(type, inventory_key, inventory_type, items) ==
  [type |-> type, inventory_key |-> inventory_key,
   inventory_type |-> inventory_type, items |-> items]
json_array(items) == json_value("array", FALSE, "none", items)
json_envelope(items) == json_value("object", TRUE, "array", items)
json_object == json_value("object", FALSE, "none", <<>>)
json_number == json_value("number", FALSE, "none", <<>>)
NoValue == json_value("none", FALSE, "none", <<>>)

entry_object(members) == [type |-> "object", members |-> members]
entry_string == [type |-> "string", members |-> <<>>]

\* An object whose "inventory" member is no array (load_inventory, line 669:
\* loaded = data.get("inventory") or []).  A text of n characters, which the
\* loop of line 679 iterates character by character (an object is iterated
\* key by key, the same way); null, which "or []" replaces by the empty
\* list (as it does 0, false and ""); a number, which cannot be iterated.
json_envelope_text(n) ==
  json_value("object", TRUE, "string", [i \in 1..n |-> entry_string])
json_envelope_null == json_value("object", TRUE, "null", <<>>)
json_envelope_number == json_value("object", TRUE, "number", <<>>)

\* A file: absent, a complete JSON document, or a document cut short (what
\* open(path, "w") leaves, and what an unfinished json.dump leaves), which
\* json.load rejects.
Absent == [kind |-> "absent", doc |-> NoValue]
Partial == [kind |-> "partial", doc |-> NoValue]
document(v) == [kind |-> "json", doc |-> v]

\* The keys of an item in the order json.dump writes them (the order
\* add_item inserts them; a TLA+ function keeps no insertion order).
KeyOrder == << "product_number", "name", "category", "quantity" >>

\* A dump that leaves out the members whose value is empty.
RECURSIVE dump_members_nonempty(_, _)
dump_members_nonempty(item, k) ==
  IF k > Len(KeyOrder) THEN <<>>
  ELSE IF KeyOrder[k] \in DOMAIN item /\ item[KeyOrder[k]] # <<>>
       THEN << << KeyOrder[k], item[KeyOrder[k]] >> >> \o dump_members_nonempty(item, k + 1)
       ELSE dump_members_nonempty(item, k + 1)

RECURSIVE dump_members(_, _)
dump_members(item, k) ==
  IF k > Len(KeyOrder) THEN <<>>
  ELSE IF KeyOrder[k] \in DOMAIN item
       THEN << << KeyOrder[k], item[KeyOrder[k]] >> >> \o dump_members(item, k + 1)
       ELSE dump_members(item, k + 1)

\* json.dump of one item dict, and of the inventory list.
dump_item(item) == entry_object(dump_members(item, 1))
dump(inventory_) == json_array([i \in 1..Len(inventory_) |-> dump_item(inventory_[i])])

\* json.load of one object: the dict of its members, a later member
\* replacing an earlier one with the same key.
load_item(e) ==
  [k \in {e.members[i][1] : i \in DOMAIN e.members} |->
     e.members[CHOOSE i \in DOMAIN e.members :
                 /\ e.members[i][1] = k
                 /\ \A j \in DOMAIN e.members : e.members[j][1] = k => j <= i][2]]

is_dict(e) == e.type = "object"

\* A validation that stops at the first entry that is no dict.
RECURSIVE cleaned_until_invalid(_)
cleaned_until_invalid(items) ==
  IF items = <<>> THEN <<>>
  ELSE IF is_dict(Head(items))
       THEN << load_item(Head(items)) >> \o cleaned_until_invalid(Tail(items))
       ELSE <<>>

\* cleaned (load_inventory, lines 677-683): the dict entries, in order.
RECURSIVE cleaned(_)
cleaned(items) ==
  IF items = <<>> THEN <<>>
  ELSE IF is_dict(Head(items)) THEN << load_item(Head(items)) >> \o cleaned(Tail(items))
  ELSE cleaned(Tail(items))

\* The entries before the first one that is no dict.
RECURSIVE leading_dicts(_)
leading_dicts(items) ==
  IF items = <<>> \/ ~is_dict(Head(items)) THEN <<>>
  ELSE << load_item(Head(items)) >> \o leading_dicts(Tail(items))

\* -------------------------------------------------------------- handlers
\* Handler `handler` ran and ended with dialog m ("" for none, "Traceback"
\* for an uncaught exception, which Tk reports before it goes on).
shows(handler, m) ==
  IF watch # "off" THEN op' = handler /\ msg' = m ELSE UNCHANGED << op, msg >>

\* A handler that returns after it emptied the list.
returns_emptied(handler, m) ==
  /\ shows(handler, m)
  /\ inventory' = <<>>
  /\ UNCHANGED << tree, sel, file, tmp, pc >>

\* A handler that returns before it changes anything, after dialog m.
returns(handler, m) ==
  /\ shows(handler, m)
  /\ UNCHANGED << inventory, tree, sel, file, tmp, pc >>

\* A handler that changed the list to inv and refreshed the table.
refreshed(handler, m, inv) ==
  /\ shows(handler, m)
  /\ inventory' = inv
  /\ tree' = refresh_table(inv)
  /\ sel' = NoSel
  /\ UNCHANGED << file, tmp, pc >>

\* A handler that an uncaught exception ended with the list as inv; the
\* table is not refreshed. Tk reports the traceback and goes on.
raised(handler, inv) ==
  /\ shows(handler, "Traceback")
  /\ inventory' = inv
  /\ UNCHANGED << tree, sel, file, tmp, pc >>

\* on_tree_select: the user selects a displayed row.
on_tree_select(iid) ==
  /\ pc = "idle"
  /\ \E r \in DOMAIN tree : tree[r].iid = iid
  /\ sel' = iid
  /\ shows("on_tree_select", "")
  /\ UNCHANGED << inventory, tree, file, tmp, pc >>

\* The quantity add_item stores on a merge (line 411); it raises when one
\* of the two quantities is no integer literal or the item has no quantity.
merge_raises(item, qty) ==
  \/ "quantity" \notin DOMAIN item
  \/ ~int_ok(item["quantity"])
  \/ ~int_ok(qty)
merged_quantity(item, qty) == str(int(item["quantity"]) + int(qty))

\* add_item with the four entries as typed and the answer to "Item Exists".
add_item(name_entry, cat_entry, qty_entry, product_entry, yes) ==
  LET name == strip(name_entry)
      category == strip(cat_entry)
      qty == strip(qty_entry)
      prodnum == strip(product_entry)
      idx == linear_search(inventory, name)
  IN /\ pc = "idle"
     /\ IF name = <<>> \/ qty = <<>>
        THEN returns("add_item", "Name and Quantity are required.")
        ELSE IF ~isdigit(qty)
        THEN returns("add_item", "Quantity must be an integer.")
        ELSE IF prodnum = <<>>
        THEN returns("add_item", "Product Number is required.")
        ELSE IF idx # NotFound
        THEN IF yes
             THEN IF merge_raises(inventory[idx + 1], qty)
                  THEN raised("add_item", inventory)
                  ELSE refreshed("add_item", "Item Exists",
                         [inventory EXCEPT ![idx + 1] =
                            [@ EXCEPT !["quantity"] =
                               merged_quantity(inventory[idx + 1], qty)]])
             ELSE returns("add_item", "Cancelled")
        ELSE IF prodnum_exists(inventory, prodnum)
        THEN returns("add_item", "Duplicate Product Number")
        ELSE refreshed("add_item", "",
               Append(inventory, new_item(prodnum, name, category, qty)))

\* An assignment that keeps nothing but the assigned key.
set_item_only(item, key, value) == [k \in {key} |-> value]

\* item[key] = value
set_item(item, key, value) ==
  [k \in DOMAIN item \cup {key} |-> IF k = key THEN value ELSE item[k]]

\* update_selected with the four entries as typed; self.inventory[idx]
\* (line 453) raises when the selected row has no item behind it.
update_selected(name_entry, cat_entry, qty_entry, product_entry) ==
  LET idx == selected_index
      name == strip(name_entry)
      category == strip(cat_entry)
      qty == strip(qty_entry)
      prodnum == strip(product_entry)
      item0 == inventory[idx + 1]
      item1 == IF name # <<>> THEN set_item(item0, "name", name) ELSE item0
      item2 == IF category # <<>> THEN set_item(item1, "category", category) ELSE item1
      item3 == IF prodnum # <<>> THEN set_item(item2, "product_number", prodnum) ELSE item2
      item4 == IF qty # <<>> THEN set_item(item3, "quantity", qty) ELSE item3
      with(item) == [inventory EXCEPT ![idx + 1] = item]
  IN /\ pc = "idle"
     /\ IF idx = NoSel
        THEN returns("update_selected", "Select Item")
        ELSE IF idx >= Len(inventory)
        THEN raised("update_selected", inventory)
        ELSE IF prodnum # <<>> /\ prodnum_clash(with(item2), idx, prodnum)
        THEN /\ shows("update_selected", "Duplicate Product Number")
             /\ inventory' = with(item2)
             /\ UNCHANGED << tree, sel, file, tmp, pc >>
        ELSE IF qty # <<>> /\ ~isdigit(qty)
        THEN /\ shows("update_selected", "Quantity must be an integer.")
             /\ inventory' = with(item3)
             /\ UNCHANGED << tree, sel, file, tmp, pc >>
        ELSE refreshed("update_selected", "", with(item4))

\* delete_selected with the answer to "Confirm Delete".
delete_selected(yes) ==
  LET idx == selected_index
  IN /\ pc = "idle"
     /\ IF idx = NoSel
        THEN returns("delete_selected", "Select Item")
        ELSE IF idx >= Len(inventory)
        THEN raised("delete_selected", inventory)
        ELSE IF yes
        THEN refreshed("delete_selected", "Confirm Delete", remove_at(inventory, idx + 1))
        ELSE returns("delete_selected", "Confirm Delete")

SortKeys == {"name", "quantity", "category", "product_number"}

\* sort_items(key): bubble_sort in place, then refresh_table; an exception
\* of bubble_sort leaves the list as the sort had it and skips the refresh.
sort_items(key) ==
  LET r == bubble_sort(inventory, key)
  IN /\ pc = "idle"
     /\ IF key \notin SortKeys
        THEN returns("sort_items", "")
        ELSE IF r.raised
        THEN raised("sort_items", r.inventory)
        ELSE refreshed("sort_items", "", r.inventory)

\* keyword in text: Python's substring test on str.
contains(text, keyword) ==
  \E i \in 0..(Len(text) - Len(keyword)) : SubSeq(text, i + 1, i + Len(keyword)) = keyword

\* A filter that looks at the name only.
matches_name_only(item, keyword) ==
  contains(lower(get(item, "name", <<>>)), keyword)

\* The condition of the comprehension of realtime_filter (lines 515-516).
matches_keyword(item, keyword) ==
  \/ contains(lower(get(item, "name", <<>>)), keyword)
  \/ contains(lower(get(item, "product_number", <<>>)), keyword)

\* A category filter that minds the case.
matches_category_exactly(item, choice) ==
  strip(get(item, "category", <<>>)) = choice

\* The condition of the comprehension of filter_by_category (line 621).
matches_category(item, choice) ==
  lower(strip(get(item, "category", <<>>))) = lower(choice)

\* [item for item in self.inventory if ...]: by keyword, by category.
RECURSIVE filtered_by_keyword(_, _)
filtered_by_keyword(inventory_, keyword) ==
  IF inventory_ = <<>> THEN <<>>
  ELSE IF matches_keyword(Head(inventory_), keyword)
       THEN << Head(inventory_) >> \o filtered_by_keyword(Tail(inventory_), keyword)
       ELSE filtered_by_keyword(Tail(inventory_), keyword)

RECURSIVE filtered_by_category(_, _)
filtered_by_category(inventory_, choice) ==
  IF inventory_ = <<>> THEN <<>>
  ELSE IF matches_category(Head(inventory_), choice)
       THEN << Head(inventory_) >> \o filtered_by_category(Tail(inventory_), choice)
       ELSE filtered_by_category(Tail(inventory_), choice)

\* self.inventory.index(item): the first index whose item equals item
\* (every item of a filtered list is in the inventory).
index(inventory_, item) ==
  (CHOOSE i \in DOMAIN inventory_ :
     /\ inventory_[i] = item
     /\ \A j \in 1..(i - 1) : inventory_[j] # item) - 1

\* refresh_treeview(data), lines 536-553: one row per item of data, its iid
\* the item's index in the inventory; tree.insert raises on an iid the tree
\* already has, which leaves the rows inserted so far.
RECURSIVE insert_rows(_, _, _)
insert_rows(rows, data, inventory_) ==
  IF data = <<>> THEN [rows |-> rows, raised |-> FALSE]
  ELSE LET iid == index(inventory_, Head(data))
       IN IF \E r \in DOMAIN rows : rows[r].iid = iid
          THEN [rows |-> rows, raised |-> TRUE]
          ELSE insert_rows(Append(rows, [iid |-> iid, values |-> row_values(Head(data))]),
                           Tail(data), inventory_)

refresh_treeview(data, inventory_) == insert_rows(<<>>, data, inventory_)

\* A handler that showed the rows of view and dialog m (a traceback when
\* the view raised).
viewed(handler, m, view) ==
  /\ shows(handler, IF view.raised THEN "Traceback" ELSE m)
  /\ tree' = view.rows
  /\ sel' = NoSel
  /\ UNCHANGED << inventory, file, tmp, pc >>

\* realtime_filter with the search entry as typed.
realtime_filter(search_entry) ==
  LET keyword == lower(strip(search_entry))
  IN /\ pc = "idle"
     /\ IF keyword = <<>>
        THEN viewed("realtime_filter", "", [rows |-> refresh_table(inventory), raised |-> FALSE])
        ELSE viewed("realtime_filter", "",
                    refresh_treeview(filtered_by_keyword(inventory, keyword), inventory))

\* The options of the dialog of filter_by_category (lines 573-575).
category_options(inventory_) ==
  {CATEGORY_ORDER[k] : k \in DOMAIN CATEGORY_ORDER}
    \cup ({strip(get(inventory_[i], "category", <<>>)) : i \in DOMAIN inventory_} \ {<<>>})

\* filter_by_category with the option chosen, <<>> for a cancelled dialog.
filter_by_category(choice) ==
  /\ pc = "idle"
  /\ choice \in category_options(inventory) \cup {<<>>}
  /\ IF strip(choice) = <<>>
     THEN returns("filter_by_category", "")
     ELSE viewed("filter_by_category", "Filter Results",
                 refresh_treeview(filtered_by_category(inventory, strip(choice)), inventory))

\* A clear that leaves the data file alone.
clear_all_in_memory(yes, removed) ==
  /\ pc = "idle"
  /\ shows("clear_all", "Confirm")
  /\ IF yes
     THEN inventory' = <<>> /\ tree' = refresh_table(<<>>) /\ sel' = NoSel
     ELSE UNCHANGED << inventory, tree, sel >>
  /\ UNCHANGED << file, tmp, pc >>

\* clear_all with the answer to "Confirm"; removed: os.remove succeeded
\* (its failure is swallowed).
clear_all(yes, removed) ==
  /\ pc = "idle"
  /\ shows("clear_all", "Confirm")
  /\ IF yes
     THEN /\ inventory' = <<>>
          /\ tree' = refresh_table(<<>>)
          /\ sel' = NoSel
          /\ file' = IF removed THEN Absent ELSE file
     ELSE UNCHANGED << inventory, tree, sel, file >>
  /\ UNCHANGED << tmp, pc >>

\* ---------------------------------------------------------------- export
Uncategorized ==
  << "U", "n", "c", "a", "t", "e", "g", "o", "r", "i", "z", "e", "d" >>
NA == << "N", "/", "A" >>
Unnamed == << "U", "n", "n", "a", "m", "e", "d" >>

\* q (lines 709-712): int(it.get("quantity", 0)), 0 when it raises.
export_quantity(item) ==
  IF "quantity" \in DOMAIN item /\ int_ok(item["quantity"]) THEN int(item["quantity"]) ELSE 0

\* A category that keeps a blank category blank.
export_category_as_stored(item) == strip(get(item, "category", <<>>))

\* cat (line 714): (it.get("category") or "").strip() or "Uncategorized".
export_category(item) ==
  IF strip(get(item, "category", <<>>)) = <<>> THEN Uncategorized
  ELSE strip(get(item, "category", <<>>))

\* stmt (lines 718-720): f"{prodnum} [EM DASH] {name} (Qty: {q})"; the
\* em dash is written here as the one character "U+2014".
statement(item) ==
  LET prodnum == IF strip(get(item, "product_number", <<>>)) = <<>> THEN NA
                 ELSE strip(get(item, "product_number", <<>>))
      name == IF strip(get(item, "name", <<>>)) = <<>> THEN Unnamed
              ELSE strip(get(item, "name", <<>>))
  IN prodnum \o << " ", "U+2014", " " >> \o name
       \o << " ", "(", "Q", "t", "y", ":", " " >> \o str(export_quantity(item)) \o << ")" >>

\* The loop of lines 708-721 from item i on; r carries total_quantity and
\* the two dicts, keyed by category.
RECURSIVE summary_loop(_, _, _)
summary_loop(r, inventory_, i) ==
  IF i > Len(inventory_) THEN r
  ELSE LET it == inventory_[i]
           cat == export_category(it)
           cats == DOMAIN r.by_category_counts \cup {cat}
       IN summary_loop(
            [total_quantity |-> r.total_quantity + export_quantity(it),
             by_category_counts |->
               [c \in cats |->
                  (IF c \in DOMAIN r.by_category_counts THEN r.by_category_counts[c] ELSE 0)
                    + (IF c = cat THEN 1 ELSE 0)],
             by_category_products |->
               [c \in cats |->
                  (IF c \in DOMAIN r.by_category_products THEN r.by_category_products[c] ELSE <<>>)
                    \o (IF c = cat THEN << statement(it) >> ELSE <<>>)]],
            inventory_, i + 1)

\* export_data (lines 723-732), without the time of the export.
export_data(inventory_) ==
  LET r == summary_loop([total_quantity |-> 0, by_category_counts |-> <<>>,
                         by_category_products |-> <<>>], inventory_, 1)
  IN [total_items |-> Len(inventory_),
      total_quantity |-> r.total_quantity,
      by_category_counts |-> r.by_category_counts,
      by_category_products |-> r.by_category_products,
      inventory |-> inventory_]

\* export_as: the path chosen ("none": the dialog was cancelled, "data":
\* the data file itself, "other": any other file) and how save_to_file
\* ended there: "written"; "unwritable" (the target could not be opened);
\* "cut short" (the direct overwrite failed after opening the target).
export_as(path, outcome) ==
  /\ pc = "idle"
  /\ IF path = "none"
     THEN returns("export_as", "")
     ELSE /\ shows("export_as", IF outcome = "written" THEN "Exported" ELSE "Export Error")
          /\ file' = IF path # "data" \/ outcome = "unwritable" THEN file
                     ELSE IF outcome = "written"
                          THEN document(json_envelope(dump(inventory).items))
                          ELSE Partial
          /\ UNCHANGED << inventory, tree, sel, tmp, pc >>

\* ----------------------------------------------------------- persistence
\* save_inventory, step by step: save_to_file(DATA_FILE, self.inventory).
\* Each I/O call succeeds or raises (ok); the process can be killed between
\* any two of them (killed).
save_inventory ==
  /\ pc = "idle"
  /\ pc' = "save_to_file"
  /\ shows("save_inventory", "")
  /\ UNCHANGED << inventory, tree, sel, file, tmp >>

\* line 106: open(tmp, "w") creates or truncates the temporary file.
open_tmp(ok) ==
  /\ pc = "save_to_file"
  /\ IF ok THEN tmp' = Partial /\ pc' = "tmp_open"
           ELSE tmp' = tmp /\ pc' = "fallback"
  /\ UNCHANGED << inventory, tree, sel, file, msg, op >>

\* line 107: json.dump into the temporary file, and its close.
dump_tmp(ok) ==
  /\ pc = "tmp_open"
  /\ IF ok THEN tmp' = document(dump(inventory)) /\ pc' = "tmp_written"
           ELSE tmp' = Partial /\ pc' = "fallback"
  /\ UNCHANGED << inventory, tree, sel, file, msg, op >>

\* A replace that copies: when it fails it leaves the target cut short.
replace_by_copy(ok) ==
  /\ pc = "tmp_written"
  /\ IF ok THEN /\ file' = tmp
                /\ tmp' = Absent
                /\ pc' = "idle"
                /\ shows("save_inventory", "Saved")
           ELSE /\ file' = Partial
                /\ pc' = "fallback"
                /\ UNCHANGED << tmp, op, msg >>
  /\ UNCHANGED << inventory, tree, sel >>

\* line 108: os.replace(tmp, path), atomic.
replace_target(ok) ==
  /\ pc = "tmp_written"
  /\ IF ok THEN /\ file' = tmp
                /\ tmp' = Absent
                /\ pc' = "idle"
                /\ shows("save_inventory", "Saved")
           ELSE /\ pc' = "fallback"
                /\ UNCHANGED << file, tmp, op, msg >>
  /\ UNCHANGED << inventory, tree, sel >>

\* line 111: open(path, "w") truncates the target; if it raises, the
\* exception reaches save_inventory, which shows "Save Error".
open_target(ok) ==
  /\ pc = "fallback"
  /\ IF ok THEN file' = Partial /\ pc' = "target_open" /\ UNCHANGED << op, msg >>
           ELSE file' = file /\ pc' = "idle" /\ shows("save_inventory", "Save Error")
  /\ UNCHANGED << inventory, tree, sel, tmp >>

\* A fallback that reports the save done whatever the dump did.
dump_target_unchecked(ok) ==
  /\ pc = "target_open"
  /\ pc' = "idle"
  /\ file' = (IF ok THEN document(dump(inventory)) ELSE Partial)
  /\ shows("save_inventory", "Saved")
  /\ UNCHANGED << inventory, tree, sel, tmp >>

\* line 112: json.dump into the target, and its close.
dump_target(ok) ==
  /\ pc = "target_open"
  /\ pc' = "idle"
  /\ IF ok THEN file' = document(dump(inventory)) /\ shows("save_inventory", "Saved")
           ELSE file' = Partial /\ shows("save_inventory", "Save Error")
  /\ UNCHANGED << inventory, tree, sel, tmp >>

\* The process is interrupted while save_to_file runs.
killed ==
  /\ pc \notin {"idle", "killed"}
  /\ pc' = "killed"
  /\ UNCHANGED << inventory, tree, sel, file, tmp, msg, op >>

\* load_from_file(DATA_FILE): the value it returns and the file it leaves;
\* created: the missing file could be created. It raises on a document
\* json.load rejects.
load_raises(f) == f.kind = "partial"
\* A load that takes a missing file for one without content.
load_without_creating(f, created) ==
  IF f.kind = "absent" THEN [data |-> NoValue, file |-> f]
  ELSE [data |-> f.doc, file |-> f]

load_from_file(f, created) ==
  IF f.kind = "absent"
  THEN [data |-> json_array(<<>>),
        file |-> IF created THEN document(json_array(<<>>)) ELSE f]
  ELSE [data |-> f.doc, file |-> f]

\* The entries load_inventory iterates (lines 668-674): the list itself, or
\* the "inventory" member of an object that has one.
is_loadable(data) == (data.type = "object" /\ data.inventory_key) \/ data.type = "array"

\* for it in loaded (line 679) raises on a value that cannot be iterated.
iterate_raises(data) ==
  data.type = "object" /\ data.inventory_key /\ data.inventory_type = "number"

\* skipped (lines 678-683): the number of entries that are no dict.
RECURSIVE skipped(_)
skipped(items) ==
  IF items = <<>> THEN 0
  ELSE (IF is_dict(Head(items)) THEN 0 ELSE 1) + skipped(Tail(items))

\* The number of skipped entries the "Loaded" dialog reports (lines 687-690),
\* 0 when it reports none or the load fails.
load_skipped(f, created) ==
  LET data == load_from_file(f, created).data
  IN IF load_raises(f) \/ ~is_loadable(data) \/ iterate_raises(data) THEN 0
     ELSE skipped(data.items)

\* load_inventory.
load_inventory(created) ==
  LET r == load_from_file(file, created)
      data == r.data
  IN /\ pc = "idle"
     /\ UNCHANGED << tmp, pc >>
     /\ IF load_raises(file)
        THEN /\ shows("load_inventory", "Load Error")
             /\ UNCHANGED << inventory, tree, sel, file >>
        ELSE /\ file' = r.file
             /\ IF ~is_loadable(data)
                THEN /\ shows("load_inventory", "Unexpected data format in inventory file.")
                     /\ UNCHANGED << inventory, tree, sel >>
                ELSE IF iterate_raises(data)
                THEN /\ shows("load_inventory", "Load Error")
                     /\ UNCHANGED << inventory, tree, sel >>
                ELSE /\ inventory' = cleaned(data.items)
                     /\ tree' = refresh_table(cleaned(data.items))
                     /\ sel' = NoSel
                     /\ shows("load_inventory", "Loaded")

\* __init__ (lines 142-158): self.inventory = load_from_file(DATA_FILE) and
\* refresh_table(); any exception leaves self.inventory = [] and the rows
\* inserted so far. Iterating anything but a list of dicts raises.
startup(f, created) ==
  LET r == load_from_file(f, created)
      all_dicts == r.data.type = "array" /\ \A i \in DOMAIN r.data.items : is_dict(r.data.items[i])
  IN IF load_raises(f)
     THEN [inventory |-> <<>>, tree |-> <<>>, file |-> f]
     ELSE IF all_dicts
     THEN [inventory |-> cleaned(r.data.items),
           tree |-> refresh_table(cleaned(r.data.items)), file |-> r.file]
     ELSE [inventory |-> <<>>,
           tree |-> IF r.data.type = "array"
                    THEN refresh_table(leading_dicts(r.data.items)) ELSE <<>>,
           file |-> r.file]

started(f, created, watched) ==
  /\ inventory = startup(f, created).inventory
  /\ tree = startup(f, created).tree
  /\ file = startup(f, created).file
  /\ sel = NoSel
  /\ tmp = Absent
  /\ pc = "idle"
  /\ watch = watched
  /\ op = "__init__"
  /\ msg = ""
  /\ pre = <<>>
  /\ args = <<>>
  /\ obs = <<>>

\* ---------------------------------------------------------- observations
\* An observed handler leaves the list it started from, what it read (a)
\* and what it counted (o).
observe(a, o) ==
  IF watch = "all" THEN pre' = inventory /\ args' = a /\ obs' = o
  ELSE obs' = <<>> /\ UNCHANGED << pre, args >>
same_watch == watch' = watch

\* ---------------------------------------------------------------- inputs
P1 == << "P", "1" >>
P2 == << "P", "2" >>
\* The sort buttons of the window (lines 283-285).
SortButtons == {"product_number", "name", "quantity"}

\* The inventory stays within the bounds of the model.
within_bounds(inventory_) ==
  /\ Len(inventory_) <= MaxLen
  /\ \A i \in DOMAIN inventory_ :
       LET q == get(inventory_[i], "quantity", <<>>)
       IN int_ok(q) => int(q) <= MaxQty

\* ------------------------------------------------- Spec: the handlers
\* The application started without a data file; the user adds, updates,
\* deletes, sorts, selects and clears.
NameEntries == { <<>>, << "a" >>, << "B", " " >> }
CatEntries == { <<>> }
QtyEntries == { <<>>, << "1" >>, << "²" >> }
ProductEntries == { <<>>, P1, << " ", "P", "2" >> }

Init == started(Absent, TRUE, "off")

AddItem ==
  \E n \in NameEntries, c \in CatEntries, q \in QtyEntries, p \in ProductEntries,
     yes \in BOOLEAN :
    /\ add_item(n, c, q, p, yes)
    /\ within_bounds(inventory')
    /\ observe(<< n, c, q, p, yes >>, <<>>)
    /\ same_watch

UpdateSelected ==
  \E n \in NameEntries, c \in CatEntries, q \in QtyEntries, p \in ProductEntries :
    /\ update_selected(n, c, q, p)
    /\ observe(<< n, c, q, p >>, <<>>)
    /\ same_watch

DeleteSelected ==
  \E yes \in BOOLEAN : delete_selected(yes) /\ observe(<< yes >>, <<>>) /\ same_watch

SortItems ==
  \E key \in SortButtons : sort_items(key) /\ observe(<< key >>, <<>>) /\ same_watch

ClearAll ==
  \E yes \in BOOLEAN, removed \in BOOLEAN :
    clear_all(yes, removed) /\ observe(<< yes, removed >>, <<>>) /\ same_watch

OnTreeSelect ==
  \E iid \in 0..(MaxLen - 1) : on_tree_select(iid) /\ observe(<< iid >>, <<>>) /\ same_watch

RealtimeFilter ==
  \E k \in { <<>>, << "A", " " >> } :
    realtime_filter(k) /\ observe(<< k >>, <<>>) /\ same_watch

FilterByCategory ==
  \E c \in category_options(inventory) \cup {<<>>} :
    filter_by_category(c) /\ observe(<< c >>, <<>>) /\ same_watch

Next ==
  \/ AddItem
  \/ UpdateSelected
  \/ DeleteSelected
  \/ SortItems
  \/ ClearAll
  \/ OnTreeSelect
  \/ RealtimeFilter
  \/ FilterByCategory

Spec == Init /\ [][Next]_vars

\* ------------------------------------- SpecStep: one observed handler
\* The application started from a data file holding any list of items (up
\* to MaxStepLen); the user selects a row or not, and one handler runs,
\* observed. Every list the handlers of Spec can build is among these.
Seqs(S, n) == UNION { [1..k -> S] : k \in 0..n }

StepItems ==
  { new_item(p, n, <<>>, << "1" >>) :
      p \in { P1, P2 }, n \in { << "a" >>, << "A" >>, << "b" >> } }
  \cup { new_item(P2, << "a" >>, <<>>, << "²" >>) }

StepNameEntries == { <<>>, << "a" >>, << "A", " " >>, << "b" >> }
StepCatEntries == { <<>>, Pads }
StepQtyEntries == { <<>>, << "1" >>, << "x" >>, << "²" >> }
StepProductEntries == { <<>>, P1, << " ", "P", "2" >> }

InitStep ==
  \E s \in Seqs(StepItems, MaxStepLen) : started(document(dump(s)), TRUE, "all")

\* No handler has run yet (a selection is no handler of the list).
fresh == op \in {"__init__", "on_tree_select"}

StepSelect ==
  \E iid \in 0..(MaxStepLen - 1) :
    /\ op = "__init__"
    /\ on_tree_select(iid)
    /\ observe(<< iid >>, sel)
    /\ same_watch

StepAdd ==
  \E n \in StepNameEntries, c \in StepCatEntries, q \in StepQtyEntries,
     p \in StepProductEntries, yes \in BOOLEAN :
    /\ fresh
    /\ add_item(n, c, q, p, yes)
    /\ observe(<< n, c, q, p, yes >>, sel)
    /\ same_watch

StepUpdate ==
  \E n \in StepNameEntries, c \in StepCatEntries, q \in StepQtyEntries,
     p \in StepProductEntries :
    /\ fresh
    /\ update_selected(n, c, q, p)
    /\ observe(<< n, c, q, p >>, sel)
    /\ same_watch

StepDelete ==
  \E yes \in BOOLEAN :
    fresh /\ delete_selected(yes) /\ observe(<< yes >>, sel) /\ same_watch

NextStep == StepSelect \/ StepAdd \/ StepUpdate \/ StepDelete

SpecStep == InitStep /\ [][NextStep]_vars

\* ------------------------------------- SpecAlgo: the two algorithms
\* The application started from a data file holding any list of items (up
\* to MaxSortLen), among them items with equal keys, names that differ in
\* case or carry spaces, unknown categories, a quantity that is no integer
\* literal and a dict without some keys; one sort or one search runs.
AlgoItems ==
  { new_item(P1, << "a" >>, Pads, << "2" >>),
    new_item(<< "p", "1" >>, << "A" >>, Compounds, << "1", "0" >>),
    new_item(P2, << "b" >>, <<>>, << "2" >>),
    new_item(P2, << " ", "a" >>, Maintenance, << "1" >>),
    new_item(P1, << "B" >>, Pads, << "²" >>),
    new_item(<< "Z" >>, << "a", "b" >>, << " ", "p", "a", "d", "s" >>, << "3" >>),
    [name |-> << "b" >>, quantity |-> << "1" >>] }

AlgoNames == { << "A", " " >>, << "b" >>, << "c" >> }

InitAlgo ==
  \E s \in Seqs(AlgoItems, MaxSortLen) : started(document(dump(s)), TRUE, "all")

AlgoSort ==
  \E key \in SortKeys :
    /\ fresh
    /\ sort_items(key)
    /\ observe(<< key >>, [swaps |-> bubble_sort(inventory, key).swaps,
                           passes |-> bubble_sort(inventory, key).passes])
    /\ same_watch

\* linear_search(self.inventory, name), as add_item calls it (line 407).
AlgoSearch ==
  \E name \in AlgoNames :
    /\ fresh
    /\ pc = "idle"
    /\ shows("linear_search", "")
    /\ observe(<< name >>, linear_search(inventory, name))
    /\ same_watch
    /\ UNCHANGED << inventory, tree, sel, file, tmp, pc >>

\* The search entry as typed, and the list realtime_filter shows for it.
AlgoKeywords == { <<>>, << " " >>, << "a" >>, << "A", " " >>, << "P", "1" >> }

AlgoFilter ==
  \E k \in AlgoKeywords :
    /\ fresh
    /\ realtime_filter(k)
    /\ observe(<< k >>, IF lower(strip(k)) = <<>> THEN inventory
                        ELSE filtered_by_keyword(inventory, lower(strip(k))))
    /\ same_watch

\* The category chosen in the dialog, and the list filter_by_category shows.
AlgoCategory ==
  \E c \in category_options(inventory) \cup {<<>>} :
    /\ fresh
    /\ filter_by_category(c)
    /\ observe(<< c >>, filtered_by_category(inventory, strip(c)))
    /\ same_watch

\* export_as, and the envelope it composes.
AlgoExport ==
  \E path \in {"none", "other", "data"}, outcome \in {"written", "unwritable", "cut short"} :
    /\ fresh
    /\ export_as(path, outcome)
    /\ observe(<< path, outcome >>, export_data(inventory))
    /\ same_watch

NextAlgo == AlgoSort \/ AlgoSearch \/ AlgoFilter \/ AlgoCategory \/ AlgoExport

SpecAlgo == InitAlgo /\ [][NextAlgo]_vars

\* ------------------------------------------- SpecIO: the data file
\* The application started on a data file that is absent, cut short, or
\* holds a list, an export envelope or something else; the user edits the
\* list, saves (step by step, each I/O call succeeding or raising, the
\* process possibly killed in between), loads and clears.
io_item(p, n, q) == new_item(p, n, <<>>, q)

IOFiles ==
  { Absent,
    Partial,
    document(json_array(<< dump_item(io_item(P1, << "a" >>, << "1" >>)),
                           entry_string,
                           dump_item(io_item(P1, << "a" >>, << "x" >>)) >>)),
    document(json_envelope(<< dump_item(io_item(P2, << "a" >>, << "1" >>)),
                              entry_string >>)),
    document(json_envelope_text(2)),
    document(json_envelope_null),
    document(json_envelope_number),
    document(json_object),
    document(json_number) }

IONameEntries == { << "b" >> }
IOQtyEntries == { << "1" >> }
IOProductEntries == { P1, P2 }

InitIO == \E f \in IOFiles, created \in BOOLEAN : started(f, created, "dialogs")

IOAdd ==
  \E n \in IONameEntries, q \in IOQtyEntries, p \in IOProductEntries, yes \in { FALSE } :
    /\ add_item(n, <<>>, q, p, yes)
    /\ within_bounds(inventory')
    /\ observe(<< n, <<>>, q, p, yes >>, sel)
    /\ same_watch

IOUpdate ==
  \E n \in { << "a" >> }, q \in { <<>> } :
    /\ update_selected(n, <<>>, q, <<>>)
    /\ observe(<< n, <<>>, q, <<>> >>, sel)
    /\ same_watch

IODelete ==
  \E yes \in BOOLEAN : delete_selected(yes) /\ observe(<< yes >>, sel) /\ same_watch

IOSort == sort_items("name") /\ observe(<< "name" >>, <<>>) /\ same_watch

IOSelect ==
  \E iid \in 0..(MaxLen - 1) : on_tree_select(iid) /\ observe(<< iid >>, sel) /\ same_watch

\* obs keeps the answer, whether the file went, and how many items went.
IOClear ==
  \E yes \in BOOLEAN, removed \in BOOLEAN :
    /\ clear_all(yes, removed)
    /\ obs' = [yes |-> yes, removed |-> yes /\ removed, before |-> Len(inventory)]
    /\ UNCHANGED << watch, pre, args >>

IOLoad ==
  \E created \in BOOLEAN :
    /\ load_inventory(created)
    /\ obs' = load_skipped(file, created)
    /\ UNCHANGED << watch, pre, args >>

unobserved_step == UNCHANGED << watch, pre, args, obs >>

IOSave == save_inventory /\ obs' = <<>> /\ UNCHANGED << watch, pre, args >>
IOOpenTmp == \E ok \in BOOLEAN : open_tmp(ok) /\ unobserved_step
IODumpTmp == \E ok \in BOOLEAN : dump_tmp(ok) /\ unobserved_step
IOReplace == \E ok \in BOOLEAN : replace_target(ok) /\ unobserved_step
IOOpenTarget == \E ok \in BOOLEAN : open_target(ok) /\ unobserved_step
IODumpTarget == \E ok \in BOOLEAN : dump_target(ok) /\ unobserved_step
IOKilled == killed /\ unobserved_step

NextIO ==
  \/ IOAdd \/ IOUpdate \/ IODelete \/ IOSort \/ IOSelect \/ IOClear \/ IOLoad
  \/ IOSave \/ IOOpenTmp \/ IODumpTmp \/ IOReplace \/ IOOpenTarget \/ IODumpTarget
  \/ IOKilled

SpecIO == InitIO /\ [][NextIO]_vars

\* ------------------------------------------- SpecEdit: repeated edits
\* The application started without a data file; the user adds, selects,
\* updates, deletes and sorts, and the dialogs are observed. Selecting a
\* row fills the entries with the item's values (on_tree_select, lines
\* 633-645): an update reads what the user typed or what the selection
\* left there. obs keeps the last update (the index, the list before, the
\* entries, the dialog) until another handler changes the list.
prefill(item) ==
  << get(item, "name", <<>>), get(item, "category", <<>>),
     get(item, "quantity", <<>>), get(item, "product_number", <<>>) >>

EditNameEntries == { << "a" >>, << "B", " " >> }
EditQtyEntries == { << "1" >>, << "²" >> }
EditProductEntries == { P1, << " ", "P", "2" >> }

\* What the user typed over the entries, or what the selection left there.
EditEntries ==
  ({ <<>>, << "a" >> } \X { <<>> } \X { <<>>, << "x" >> } \X { <<>>, P1 })
    \cup (IF sel # NoSel /\ sel < Len(inventory)
          THEN { prefill(inventory[sel + 1]) } ELSE {})

InitEdit == started(Absent, TRUE, "dialogs")

EditAdd ==
  \E n \in EditNameEntries, q \in EditQtyEntries, p \in EditProductEntries,
     yes \in BOOLEAN :
    /\ add_item(n, <<>>, q, p, yes)
    /\ within_bounds(inventory')
    /\ observe(<< n, <<>>, q, p, yes >>, <<>>)
    /\ same_watch

EditSelect ==
  \E iid \in 0..(MaxLen - 1) :
    on_tree_select(iid) /\ UNCHANGED << pre, args, obs >> /\ same_watch

EditUpdate ==
  \E e \in EditEntries :
    /\ update_selected(e[1], e[2], e[3], e[4])
    /\ obs' = [idx |-> sel, before |-> inventory, entries |-> e, msg |-> msg']
    /\ UNCHANGED << pre, args >>
    /\ same_watch

NextEdit == EditAdd \/ EditSelect \/ EditUpdate \/ DeleteSelected \/ SortItems

SpecEdit == InitEdit /\ [][NextEdit]_vars

\* ------------------------------------- SpecNames: adds without updates
\* The application started without a data file; the user adds items whose
\* names differ in case and in the spaces around them (confirming a merge
\* or not), selects, deletes, sorts and clears; nothing is updated and
\* nothing is loaded.
NamesNameEntries == { << "a" >>, << "A", " " >>, << " ", "b" >>, << "B" >> }
NamesProductEntries == { P1, P2, << "P", "3" >> }

InitNames == started(Absent, TRUE, "off")

NamesAdd ==
  \E n \in NamesNameEntries, q \in { << "1" >>, << "²" >> }, p \in NamesProductEntries,
     yes \in BOOLEAN :
    /\ add_item(n, <<>>, q, p, yes)
    /\ within_bounds(inventory')
    /\ observe(<< n, <<>>, q, p, yes >>, <<>>)
    /\ same_watch

NextNames == NamesAdd \/ OnTreeSelect \/ DeleteSelected \/ SortItems \/ ClearAll

SpecNames == InitNames /\ [][NextNames]_vars

\* ================================================================ claims
\* Vocabulary of the claims.
product_number_of(item) == get(item, "product_number", <<>>)
name_matches(item, name) == lower(strip(get(item, "name", <<>>))) = lower(strip(name))
some_name_matches(inventory_, name) ==
  \E i \in DOMAIN inventory_ : name_matches(inventory_[i], name)
\* The first index (from 1) whose name matches.
first_match(inventory_, name) ==
  CHOOSE i \in DOMAIN inventory_ :
    /\ name_matches(inventory_[i], name)
    /\ \A j \in 1..(i - 1) : ~name_matches(inventory_[j], name)
\* A text that is a non-negative integer literal.
is_natural(q) == q # <<>> /\ \A i \in DOMAIN q : IsDecimal(q[i])

\* C1: starting from an empty Store, after any sequence of add, update,
\* delete, sort and clear, no two Records have the same non-empty
\* product_number.
C1_UniqueProductNumbers ==
  \A i, j \in DOMAIN inventory :
    (i # j /\ product_number_of(inventory[i]) # <<>>)
      => product_number_of(inventory[i]) # product_number_of(inventory[j])

\* C1 witness: two Records, both with a product number, are in the Store.
C1_Witness ==
  /\ Len(inventory) = 2
  /\ product_number_of(inventory[1]) # <<>>
  /\ product_number_of(inventory[2]) # <<>>

\* C2 (as claimed): an update that is rejected, for a product number another
\* Record carries or for a quantity that is no number, leaves every field
\* of every Record as it was.
C2_RejectedUpdateChangesNothing ==
  (op = "update_selected"
     /\ msg \in {"Duplicate Product Number", "Quantity must be an integer."})
    => inventory = pre

\* C3: an add that does not succeed leaves the Store unchanged: an empty
\* name, quantity or product number, a quantity that is not numeric
\* (str.isdigit), a new name with a product number already in the Store,
\* or a matching name with the merge declined.
add_does_not_succeed(inventory_, a) ==
  LET name == strip(a[1])
      qty == strip(a[3])
      prodnum == strip(a[4])
      yes == a[5]
  IN \/ name = <<>> \/ qty = <<>> \/ prodnum = <<>>
     \/ ~isdigit(qty)
     \/ /\ ~some_name_matches(inventory_, name)
        /\ \E i \in DOMAIN inventory_ : product_number_of(inventory_[i]) = prodnum
     \/ some_name_matches(inventory_, name) /\ ~yes

merge_confirmed(inventory_, a) ==
  /\ strip(a[1]) # <<>>
  /\ strip(a[4]) # <<>>
  /\ is_natural(strip(a[3]))
  /\ some_name_matches(inventory_, strip(a[1]))
  /\ a[5]

is_sum(new, old, added) ==
  /\ int_ok(old) /\ int_ok(added) /\ int_ok(new)
  /\ int(new) = int(old) + int(added)

merged_as_claimed(before, after, a) ==
  LET m == first_match(before, strip(a[1]))
  IN /\ Len(after) = Len(before)
     /\ "quantity" \in DOMAIN before[m]
     /\ is_sum(after[m]["quantity"], before[m]["quantity"], strip(a[3]))
     /\ \A i \in DOMAIN before :
          /\ DOMAIN after[i] = DOMAIN before[i]
          /\ \A k \in DOMAIN before[i] :
               (i # m \/ k # "quantity") => after[i][k] = before[i][k]

C4_MergeAddsQuantities ==
  (op = "add_item" /\ merge_confirmed(pre, args)) => merged_as_claimed(pre, inventory, args)

\* C4, where it holds: the same, when the matched Record's quantity is an
\* integer literal too.
C4_MergeOfIntegers ==
  (/\ op = "add_item"
   /\ merge_confirmed(pre, args)
   /\ int_ok(get(pre[first_match(pre, strip(args[1]))], "quantity", <<>>)))
    => merged_as_claimed(pre, inventory, args)

\* C9 (as claimed): every Record's quantity is text that parses as a
\* non-negative integer.
C9_QuantitiesAreNaturals ==
  \A i \in DOMAIN inventory :
    /\ "quantity" \in DOMAIN inventory[i]
    /\ int_ok(inventory[i]["quantity"])
    /\ int(inventory[i]["quantity"]) >= 0

\* C5: find_by_name(n) returns the smallest index whose Record name,
\* trimmed and lower-cased, equals n trimmed and lower-cased, -1 exactly
\* when there is none, and leaves the Store as it was.
C5_FindFirstMatch ==
  op = "linear_search" =>
    /\ (obs = NotFound) <=> ~some_name_matches(pre, args[1])
    /\ obs # NotFound => obs + 1 = first_match(pre, args[1])
    /\ inventory = pre

\* C5 witness: a search found its name at a later index while a second
\* Record further on matches too.
C5_Witness ==
  /\ op = "linear_search"
  /\ obs = 1
  /\ Len(pre) = 3
  /\ name_matches(pre[3], args[1])

\* The comparators of the claims. A text key is compared lower-cased, a
\* quantity by its integer value, a category by its place in the known
\* order, every other category after them.
category_rank(c) ==
  CASE c = Coating_Wax -> 0 [] c = Maintenance -> 1 [] c = Pads -> 2
    [] c = Accessories -> 3 [] OTHER -> 4

comparable(x, y, key) ==
  key = "quantity" =>
    /\ "quantity" \in DOMAIN x /\ int_ok(x["quantity"])
    /\ "quantity" \in DOMAIN y /\ int_ok(y["quantity"])

text_key(x, key) == lower(py_str(get_or_none(x, key)))

\* x sorts strictly before y under the key's comparator.
key_less(x, y, key) ==
  CASE key = "quantity" -> int(x["quantity"]) < int(y["quantity"])
    [] key = "category" ->
         category_rank(py_str(get_or_none(x, key))) < category_rank(py_str(get_or_none(y, key)))
    [] OTHER -> str_gt(text_key(y, key), text_key(x, key))

key_equal(x, y, key) ==
  comparable(x, y, key) /\ ~key_less(x, y, key) /\ ~key_less(y, x, key)

non_decreasing(inventory_, key) ==
  \A i \in 1..(Len(inventory_) - 1) :
    /\ comparable(inventory_[i], inventory_[i + 1], key)
    /\ ~key_less(inventory_[i + 1], inventory_[i], key)

\* The Records of the list that compare equal to x, in list order.
RECURSIVE equal_to(_, _, _)
equal_to(inventory_, x, key) ==
  IF inventory_ = <<>> THEN <<>>
  ELSE IF key_equal(Head(inventory_), x, key)
       THEN << Head(inventory_) >> \o equal_to(Tail(inventory_), x, key)
       ELSE equal_to(Tail(inventory_), x, key)

\* Records that compare equal keep their relative order.
stable(before, after, key) ==
  \A i \in DOMAIN before :
    equal_to(after, before[i], key) = equal_to(before, before[i], key)

\* C6 (as claimed): after order_by(key) the Store is non-decreasing under
\* the key's comparator and Records that compare equal keep their order,
\* for every Store and every key.
C6_SortedAndStable ==
  op = "sort_items" =>
    /\ non_decreasing(inventory, args[1])
    /\ stable(pre, inventory, args[1])

\* C6, where it holds: the same, for the sorts that bubble_sort completes.
C6_CompletedSortIsSortedAndStable ==
  (op = "sort_items" /\ msg # "Traceback") =>
    /\ non_decreasing(inventory, args[1])
    /\ stable(pre, inventory, args[1])
    /\ Len(inventory) = Len(pre)

\* C7: order_by(key) on a Store already non-decreasing under the key's
\* comparator swaps nothing, leaves the sequence as it is and stops after
\* a single pass.
C7_SortedInputNoSwaps ==
  (op = "sort_items" /\ non_decreasing(pre, args[1])) =>
    /\ obs.swaps = 0
    /\ obs.passes <= 1
    /\ inventory = pre

\* C7 witness: a sort ran on three Records already in order, two of them
\* with equal keys, and made its one pass.
C7_Witness ==
  /\ op = "sort_items"
  /\ Len(pre) = 3
  /\ non_decreasing(pre, args[1])
  /\ key_equal(pre[1], pre[2], args[1])
  /\ key_less(pre[2], pre[3], args[1])
  /\ obs.passes = 1

\* C8: a successful save followed directly by a load gives back the Store
\* that was saved, equal in content and in order (so a second save and
\* load changes nothing either).
C8_SaveThenLoadRoundTrip ==
  [][(/\ op = "save_inventory" /\ msg = "Saved"
      /\ op' = "load_inventory" /\ msg' = "Loaded")
       => inventory' = inventory]_vars

\* C8 witness: a load gave back two Records, one of them added since the
\* start (only a save can have put it in the file).
C8_Witness ==
  /\ op = "load_inventory"
  /\ msg = "Loaded"
  /\ Len(inventory) = 2
  /\ \E i \in DOMAIN inventory : get(inventory[i], "name", <<>>) = << "b" >>
  /\ file = document(dump(inventory))

\* C10 (as claimed): at every step of a save, the target file keeps its
\* content or becomes the complete new payload; it is never cut short.
C10_TargetNeverPartial ==
  [][pc # "idle" => (file' = file \/ file' = document(dump(inventory)))]_vars

\* C10 (amended): while save_to_file writes the temporary file and replaces
\* the target with it, the target keeps its content until the replace makes
\* it the complete new payload; on the direct overwrite it falls back to,
\* the target is cut short from its opening until the dump has finished.
C10_AtomicPathKeepsTarget ==
  [][/\ pc \in {"save_to_file", "tmp_open", "tmp_written"}
          => \/ file' = file
             \/ pc' = "idle" /\ file' = document(dump(inventory))
     /\ pc' = "target_open" => file' = Partial]_vars

\* C10 witness: a save has written its temporary file while the target
\* still holds older, complete content.
C10_Witness ==
  /\ pc = "tmp_written"
  /\ file.kind = "json"
  /\ file # document(dump(inventory))
  /\ tmp = document(dump(inventory))

\* Vocabulary of the load claims. A step of load_inventory is a step taken
\* with no save under way that leaves load_inventory as the last handler.
load_step == pc = "idle" /\ op' = "load_inventory"
LoadErrors == {"Load Error", "Unexpected data format in inventory file."}
\* The document is an array, or an object whose "inventory" is an array.
holds_array(doc) ==
  \/ doc.type = "array"
  \/ doc.type = "object" /\ doc.inventory_key /\ doc.inventory_type = "array"
is_object_entry(e) == e.type = "object"
\* The Records the object entries of an array denote, in the array's order.
object_entries(items) ==
  LET kept == SelectSeq(items, is_object_entry)
  IN [i \in 1..Len(kept) |-> load_item(kept[i])]

\* C11: a load of an array A, and a load of an envelope whose "inventory"
\* is A, both make the Store the object entries of A in their order, and
\* report as skipped the number of entries of A they dropped.
C11_LoadAcceptsBothShapes ==
  [][(load_step /\ file.kind = "json" /\ holds_array(file.doc))
       => /\ msg' = "Loaded"
          /\ inventory' = object_entries(file.doc.items)
          /\ obs' = Len(file.doc.items) - Len(inventory')]_vars

\* C11 witness: a load of an envelope kept one Record and skipped one entry.
C11_Witness ==
  /\ op = "load_inventory"
  /\ msg = "Loaded"
  /\ file.kind = "json"
  /\ file.doc.type = "object"
  /\ Len(inventory) = 1
  /\ obs = 1

\* C12 (as claimed): a load of a file that is malformed, or that is neither
\* an array nor an object carrying an "inventory" array, reports an error
\* and leaves the Store as it was.
C12_FailedLoadChangesNothing ==
  [][(load_step /\ (file.kind = "partial"
                    \/ (file.kind = "json" /\ ~holds_array(file.doc))))
       => (msg' \in LoadErrors /\ inventory' = inventory)]_vars

contains_ci(text, k) == contains(lower(text), lower(k))
equals_ci(text, c) == lower(text) = lower(c)
name_or_number_contains(item, k) ==
  \/ contains_ci(get(item, "name", <<>>), k)
  \/ contains_ci(get(item, "product_number", <<>>), k)
\* The Records of the Store whose name or product number contains k, and
\* those whose category (trimmed or as stored) equals c, in Store order.
records_containing(inventory_, k) ==
  SelectSeq(inventory_, LAMBDA item : name_or_number_contains(item, k))
records_in_category(inventory_, c) ==
  SelectSeq(inventory_, LAMBDA item : equals_ci(get(item, "category", <<>>), c))
records_in_trimmed_category(inventory_, c) ==
  SelectSeq(inventory_, LAMBDA item : equals_ci(strip(get(item, "category", <<>>)), c))

\* C14 (as claimed): for a keyword k that is not blank the filter returns
\* exactly the Records whose name or product number contains k without
\* regard to case, in Store order; for a blank keyword the whole Store; and
\* it leaves the Store as it was.
C14_FilterBySubstring ==
  op = "realtime_filter" =>
    /\ inventory = pre
    /\ obs = IF strip(args[1]) = <<>> THEN pre ELSE records_containing(pre, args[1])

\* C14 (amended): the same, the keyword being trimmed of surrounding
\* whitespace before it is matched.
C14_FilterByTrimmedSubstring ==
  op = "realtime_filter" =>
    /\ inventory = pre
    /\ obs = IF strip(args[1]) = <<>> THEN pre
             ELSE records_containing(pre, strip(args[1]))

\* C14 witness: a keyword typed in capitals with a trailing space selected
\* the first and the last of three Records and left out the middle one.
C14_Witness ==
  /\ op = "realtime_filter"
  /\ args[1] = << "A", " " >>
  /\ Len(pre) = 3
  /\ obs = << pre[1], pre[3] >>
  /\ pre[2] # pre[1]
  /\ pre[2] # pre[3]

\* C15 (as claimed): the category filter returns exactly the Records whose
\* category equals the chosen one without regard to case, in Store order,
\* and leaves the Store as it was.
C15_FilterByCategory ==
  (op = "filter_by_category" /\ args[1] # <<>>) =>
    /\ inventory = pre
    /\ obs = records_in_category(pre, args[1])

\* C15 (amended): the same, a Record's category being trimmed of
\* surrounding whitespace before it is compared.
C15_FilterByTrimmedCategory ==
  (op = "filter_by_category" /\ args[1] # <<>>) =>
    /\ inventory = pre
    /\ obs = records_in_trimmed_category(pre, args[1])

\* C15 witness: the filter on "Pads" selected a Record stored as "Pads" and
\* one stored as " pads", and left out a Record of another category.
C15_Witness ==
  /\ op = "filter_by_category"
  /\ args[1] = Pads
  /\ Len(pre) = 3
  /\ Len(obs) = 2
  /\ get(obs[1], "category", <<>>) # get(obs[2], "category", <<>>)

\* C16 (as claimed): after startup and after every handler, every displayed
\* row resolves to a Store index that exists and holds the Record the row
\* shows.
row_shows_its_record(row) ==
  /\ row.iid \in 0..(Len(inventory) - 1)
  /\ row.values = row_values(inventory[row.iid + 1])

C16_RowsShowTheirRecords ==
  \A r \in DOMAIN tree : row_shows_its_record(tree[r])

\* C17 (as claimed): a sort either completes with the Store ordered by the
\* key, or fails with the Store sequence as it was before the call.
C17_SortIsAtomic ==
  op = "sort_items" =>
    \/ msg # "Traceback" /\ non_decreasing(inventory, args[1])
    \/ inventory = pre

\* Vocabulary of the export claim. A quantity counts as its integer value,
\* a missing or non-numeric one as 0; a blank category is "Uncategorized".
quantity_or_zero(item) ==
  IF "quantity" \in DOMAIN item /\ int_ok(item["quantity"]) THEN int(item["quantity"]) ELSE 0
category_or_uncategorized(item) ==
  LET c == strip(get(item, "category", <<>>)) IN IF c = <<>> THEN Uncategorized ELSE c
RECURSIVE sum_of_quantities(_)
sum_of_quantities(inventory_) ==
  IF inventory_ = <<>> THEN 0
  ELSE quantity_or_zero(Head(inventory_)) + sum_of_quantities(Tail(inventory_))
RECURSIVE sum_of_counts(_, _)
sum_of_counts(counts, cats) ==
  IF cats = {} THEN 0
  ELSE LET c == CHOOSE c \in cats : TRUE
       IN counts[c] + sum_of_counts(counts, cats \ {c})
records_of_category(inventory_, c) ==
  SelectSeq(inventory_, LAMBDA item : category_or_uncategorized(item) = c)

\* C18: the envelope export composes has total_items the number of Records,
\* total_quantity the sum of the quantities (0 for a missing or non-numeric
\* one), by_category_counts summing to total_items with blank categories
\* under "Uncategorized", by_category_products holding per category the
\* statements of its Records in Store order, as many as its count, and
\* inventory the Store; and the export leaves the Store as it was.
C18_ExportEnvelope ==
  (op = "export_as" /\ args[1] # "none") =>
    /\ inventory = pre
    /\ obs.inventory = pre
    /\ obs.total_items = Len(pre)
    /\ obs.total_quantity = sum_of_quantities(pre)
    /\ sum_of_counts(obs.by_category_counts, DOMAIN obs.by_category_counts) = Len(pre)
    /\ DOMAIN obs.by_category_counts = {category_or_uncategorized(pre[i]) : i \in DOMAIN pre}
    /\ DOMAIN obs.by_category_products = DOMAIN obs.by_category_counts
    /\ \A c \in DOMAIN obs.by_category_counts :
         /\ obs.by_category_counts[c] = Len(records_of_category(pre, c))
         /\ Len(obs.by_category_products[c]) = obs.by_category_counts[c]
         /\ \A k \in DOMAIN obs.by_category_products[c] :
              obs.by_category_products[c][k] = statement(records_of_category(pre, c)[k])

\* C18 witness: an export of three Records, one of them with a quantity
\* that is no integer literal and one with a blank category, beside a
\* Record of another category.
C18_Witness ==
  /\ op = "export_as"
  /\ msg = "Exported"
  /\ Len(pre) = 3
  /\ \E i \in DOMAIN pre : "quantity" \in DOMAIN pre[i] /\ ~int_ok(pre[i]["quantity"])
  /\ Uncategorized \in DOMAIN obs.by_category_counts
  /\ Pads \in DOMAIN obs.by_category_counts
  /\ obs.total_quantity > 0

\* C19: a successful add whose name matches no Record yields the old Store
\* followed by the new Record: every Record keeps its index and fields and
\* the length grows by one.
add_appends(inventory_, a) ==
  /\ strip(a[1]) # <<>> /\ strip(a[4]) # <<>>
  /\ isdigit(strip(a[3]))
  /\ ~some_name_matches(inventory_, strip(a[1]))
  /\ \A i \in DOMAIN inventory_ : strip(product_number_of(inventory_[i])) # strip(a[4])

the_record(a) ==
  [product_number |-> strip(a[4]), name |-> strip(a[1]),
   category |-> strip(a[2]), quantity |-> strip(a[3])]

C19_AddAppends ==
  (op = "add_item" /\ add_appends(pre, args)) =>
    /\ Len(inventory) = Len(pre) + 1
    /\ \A i \in DOMAIN pre : inventory[i] = pre[i]
    /\ inventory[Len(inventory)] = the_record(args)

\* C19 witness: an add with a category put a third Record after two.
C19_Witness ==
  /\ op = "add_item"
  /\ msg = ""
  /\ Len(pre) = 2
  /\ Len(inventory) = 3
  /\ args[2] # <<>>

\* C20: a confirmed delete of the selected index removes exactly the Record
\* there: the Records before keep their index, those after move down by
\* one, none changes; a declined delete leaves the Store as it was.
C20_DeleteRemovesOne ==
  (op = "delete_selected" /\ obs # NoSel) =>
    IF args[1]
    THEN /\ Len(inventory) = Len(pre) - 1
         /\ \A i \in 1..obs : inventory[i] = pre[i]
         /\ \A i \in (obs + 1)..Len(inventory) : inventory[i] = pre[i + 1]
    ELSE inventory = pre

\* C20 witness: a confirmed delete removed the first of two different
\* Records.
C20_Witness ==
  /\ op = "delete_selected"
  /\ args = << TRUE >>
  /\ obs = 0
  /\ Len(pre) = 2
  /\ pre[1] # pre[2]
  /\ inventory = << pre[2] >>

\* C21: a successful update overwrites on the Record at the selected index
\* exactly the fields whose patch value (the entry, trimmed) is non-empty,
\* with that value; the Record's other fields, every other Record, the
\* length and the order of the Store stay as they were.
update_succeeds == op = "update_selected" /\ msg = "" /\ obs # NoSel

patch(a) ==
  [name |-> strip(a[1]), category |-> strip(a[2]),
   quantity |-> strip(a[3]), product_number |-> strip(a[4])]

patched_as_claimed(before, after, p) ==
  /\ DOMAIN after = DOMAIN before \cup { k \in DOMAIN p : p[k] # <<>> }
  /\ \A k \in DOMAIN after :
       after[k] = IF k \in DOMAIN p /\ p[k] # <<>> THEN p[k] ELSE before[k]

C21_UpdateOverwritesPatchedFields ==
  update_succeeds =>
    /\ Len(inventory) = Len(pre)
    /\ patched_as_claimed(pre[obs + 1], inventory[obs + 1], patch(args))
    /\ \A i \in DOMAIN pre : i # obs + 1 => inventory[i] = pre[i]

\* C21 witness: an update with a name and a category, and neither product
\* number nor quantity, changed the second of two Records.
C21_Witness ==
  /\ update_succeeds
  /\ obs = 1
  /\ Len(pre) = 2
  /\ patch(args).name # <<>> /\ patch(args).category # <<>>
  /\ patch(args).quantity = <<>> /\ patch(args).product_number = <<>>
  /\ inventory[2] # pre[2]
  /\ inventory[2].quantity = pre[2].quantity

\* C22: on every Store reached from empty through add, update, delete and
\* sort, an update whose patch repeats the four current values of the
\* Record at the index (as selecting the row fills them in) is not
\* rejected and leaves the Store as it was; and an accepted update,
\* repeated with the same patch on the same index, is accepted again and
\* changes nothing more.
is_update == "idx" \in DOMAIN obs
repeats_current_values ==
  /\ op = "update_selected"
  /\ is_update
  /\ obs.idx # NoSel /\ obs.idx < Len(obs.before)
  /\ obs.entries = prefill(obs.before[obs.idx + 1])

same_update_again ==
  /\ is_update /\ obs.msg = "" /\ obs.idx # NoSel
  /\ op' = "update_selected"
  /\ "idx" \in DOMAIN obs'
  /\ obs'.idx = obs.idx
  /\ obs'.entries = obs.entries
  /\ obs'.before = inventory

C22_UpdateWithOwnValuesIsNoOp ==
  /\ [](repeats_current_values => (msg = "" /\ inventory = obs.before))
  /\ [][same_update_again => (msg' = "" /\ inventory' = inventory)]_vars

\* C22 witness: the second of two Records, both with a product number,
\* was updated with its own four values.
C22_Witness ==
  /\ repeats_current_values
  /\ obs.idx = 1
  /\ Len(obs.before) = 2
  /\ obs.entries[4] # <<>>
  /\ product_number_of(obs.before[1]) # <<>>

\* C23: a save signals a write failure exactly when the temporary file and
\* replace path has failed and the direct overwrite it falls back to fails
\* too; and whenever a save returns without a failure, by either path, the
\* target file holds the complete new payload.
save_returns == pc \notin {"idle", "killed"} /\ pc' = "idle"
\* The direct overwrite is under way: the first path has raised.
first_path_failed == pc \in {"fallback", "target_open"}
\* open(path, "w") raises, or the dump into the target does.
fallback_fails ==
  \/ pc = "fallback" /\ pc' # "target_open"
  \/ pc = "target_open" /\ file' = Partial

clear_step == pc = "idle" /\ op' = "clear_all"
cleared == op = "clear_all" /\ obs.yes

C25_StartupAcceptsBothShapes ==
  op = "__init__" =>
    inventory = (IF file.kind = "json" /\ holds_array(file.doc)
                 THEN object_entries(file.doc.items) ELSE <<>>)

\* C26: starting from an empty Store, after any sequence of adds (merge
\* confirmed or declined), deletes, sorts and clears, with no update and no
\* load, no two Records have the same name, the names compared trimmed and
\* without regard to case.
C26_NamesAreUnique ==
  \A i, j \in DOMAIN inventory :
    i # j => ~name_matches(inventory[i], get(inventory[j], "name", <<>>))

\* C26 witness: the Store holds two Records, and one of them has taken the
\* quantity of a second add under a matching name.
C26_Witness ==
  /\ Len(inventory) = 2
  /\ \E i \in DOMAIN inventory : inventory[i].quantity = << "2" >>

\* C27: a completed sort, by any key, leaves a permutation of the Store it
\* started from: the same length, and every Record, with all its fields,
\* as many times as before.
count(inventory_, item) == Cardinality({ i \in DOMAIN inventory_ : inventory_[i] = item })

C27_SortPermutes ==
  (op = "sort_items" /\ msg = "") =>
    /\ Len(inventory) = Len(pre)
    /\ \A i \in DOMAIN pre : count(inventory, pre[i]) = count(pre, pre[i])

\* C27 witness: a completed sort exchanged Records of a Store of three, two
\* of them alike.
C27_Witness ==
  /\ op = "sort_items" /\ msg = ""
  /\ Len(pre) = 3
  /\ obs.swaps > 0
  /\ inventory # pre
  /\ \E i, j \in DOMAIN pre : i # j /\ pre[i] = pre[j]

\* C28 (as claimed): every successful add of quantity q, merged into a
\* Record or appended as a new one, increases the sum of the Records'
\* quantities by exactly q and changes the quantity of at most one Record.
add_succeeds == op = "add_item" /\ msg \in {"", "Item Exists"}
\* The indexes whose Record is new or has another quantity than before.
quantity_changed(before, after) ==
  { i \in DOMAIN after :
      i \notin DOMAIN before
        \/ get(after[i], "quantity", None) # get(before[i], "quantity", None) }

sum_grows_by(before, after, q) ==
  /\ int_ok(q)
  /\ sum_of_quantities(after) = sum_of_quantities(before) + int(q)
  /\ Cardinality(quantity_changed(before, after)) <= 1

C28_AddGrowsSumByQuantity ==
  add_succeeds => sum_grows_by(pre, inventory, strip(args[3]))

\* C28, where it holds: the same, for a quantity that is an integer
\* literal.
C28_AddOfIntegerGrowsSum ==
  (add_succeeds /\ int_ok(strip(args[3]))) => sum_grows_by(pre, inventory, strip(args[3]))

====
